---------------------------- MODULE Spec2Model ----------------------------
(***************************************************************************)
(* Model of pass_through_controllers/trajectory_interface.h:               *)
(*                                                                         *)
(*   TrajectoryHandle<TrajectoryType, FeedbackType>    (lines 58-191)      *)
(*   TrajectoryInterface<TrajectoryType, FeedbackType> (lines 209-250)     *)
(*                                                                         *)
(* TrajectoryInterface derives from HardwareResourceManager<..,            *)
(* ClaimResources>, which is not part of trajectory_interface.h.  The      *)
(* inherited single-name claim and the release of a consumer's claims are  *)
(* modelled from the written contract of the registry (BaseClaim,          *)
(* release), and so are its registerHandle and getHandle; everything else  *)
(* is translated from the header.                                          *)
(*                                                                         *)
(* Specifications: SpecRegistry (claims), SpecHandle (one handle),         *)
(* SpecPassThrough (driver and controllers sharing a registered handle),   *)
(* SpecNames (handle names), SpecAsync (cancel from another thread).       *)
(***************************************************************************)
EXTENDS Integers, Sequences, FiniteSets, TLC

VARIABLES
    m_joint_names,   \* TrajectoryInterface::m_joint_names (l.249)
    claims,          \* claim table of the registry: consumer -> set of names
    scope,           \* per consumer: names of the groups whose claim() returned
    rlast,           \* the last registry operation, its input and outcome
    handle,          \* the TrajectoryHandle object (NoHandle before construction)
    cmdBuf,          \* the storage m_cmd points to
    fbBuf,           \* the storage m_feedback points to
    setLog,          \* arguments of the setCommand calls on the handle
    cmdCbLog,        \* arguments of the m_cmd_callback invocations
    nCancel,         \* number of cancelCommand calls on the handle
    nCancelCb,       \* number of m_cancel_callback invocations
    hlast,           \* the last handle operation, its input and outcome
    registered,      \* the registry's handles: name -> registered handle
    ctrl,            \* per consumer: the handle copy it got from getHandle
    kind,            \* the alias the driver's handle was instantiated from
    names,           \* per alias: what getName() returned on such a handle
    loopOp,          \* the buffer operation the control loop is inside of
    cancelling       \* whether another thread is inside cancelCommand

rvars == <<m_joint_names, claims, scope, rlast>>
hvars == <<handle, cmdBuf, fbBuf, setLog, cmdCbLog, nCancel, nCancelCb, hlast>>
xvars == <<registered, ctrl, kind, names, loopOp, cancelling>>
vars == <<m_joint_names, claims, scope, rlast,
          handle, cmdBuf, fbBuf, setLog, cmdCbLog, nCancel, nCancelCb, hlast,
          registered, ctrl, kind, names, loopOp, cancelling>>

---------------------------------------------------------------------------
(* Bounds and finite input sets *)

MaxGroupLen == 2
MaxTrajLen == 1
MaxFeedback == 2
MaxOps == 2

Names == {"A", "B", "C"}
Consumers == {"c1", "c2"}
\* values of the argument of claim(): registered names and one that is not
ClaimArgs == Names \cup {"unregistered"}

Range(s) == {s[i] : i \in 1..Len(s)}

SeqsUpTo(S, n) == UNION {[1..k -> S] : k \in 0..n}

\* std::vector<std::string> values handed to setResources
Groups == SeqsUpTo(Names, MaxGroupLen)

---------------------------------------------------------------------------
(* Registry: TrajectoryInterface over the base claim table *)

NoClaims == [c \in Consumers |-> {}]

\* Base registry, single-name exclusivity check: fails when the name is held
\* by another consumer, otherwise records the name for the caller.
BaseClaim(tbl, c, joint) ==
    IF \E d \in Consumers \ {c} : joint \in tbl[d]
    THEN [claims |-> tbl, result |-> "ResourceConflict"]
    ELSE [claims |-> [tbl EXCEPT ![c] = @ \cup {joint}], result |-> "ok"]

\* Base registry, end of a consumer's claim scope: all its claims are dropped.
release(tbl, c) == [tbl EXCEPT ![c] = {}]

\* Mutant: the member names are recorded without the base claim.
claimJoint_unchecked(tbl, c, joint) ==
    [claims |-> [tbl EXCEPT ![c] = @ \cup {joint}], result |-> "ok"]

\* l.242-244: the loop body, the qualified call of the base class's claim
claimJoint(tbl, c, joint) == BaseClaim(tbl, c, joint)

\* l.240-245: range-for over m_joint_names from position i on.  A failing base
\* claim throws out of the loop: the names claimed so far stay claimed, the
\* remaining names are not visited.
RECURSIVE claimLoop(_, _, _, _)
claimLoop(tbl, c, joints, i) ==
    IF i > Len(joints)
    THEN [claims |-> tbl, result |-> "ok"]
    ELSE LET r == claimJoint(tbl, c, joints[i])
         IN  IF r.result # "ok"
             THEN r
             ELSE claimLoop(r.claims, c, joints, i + 1)

\* Mutant: with no configured names claim() falls back to claiming its argument.
claim_fallback(tbl, c, resource, joints) ==
    IF joints = << >>
    THEN [claims |-> [tbl EXCEPT ![c] = @ \cup {resource}], result |-> "ok"]
    ELSE claimLoop(tbl, c, joints, 1)

\* Mutant: claim() behaves like the base claim and claims its argument.
claim_argument(tbl, c, resource, joints) == claimJoint(tbl, c, resource)

\* l.238-246: TrajectoryInterface::claim(std::string /*resource*/)
claim(tbl, c, resource, joints) == claimLoop(tbl, c, joints, 1)

\* Mutant: the new names are added to the configured ones.
setResources_append(old, resources) == old \o resources

\* l.225-228: m_joint_names = resources; the content of m_joint_names afterwards
setResources(old, resources) == resources

\* the last registry operation: op, the calling consumer (by), the argument of
\* claim (arg), how it ended (result), the claim table before it (pre), the
\* argument of setResources (res) and m_joint_names before it (preGroup)
RInit ==
    /\ m_joint_names = << >>
    /\ claims = NoClaims
    /\ scope = NoClaims
    /\ rlast = [op |-> "init", by |-> "none", arg |-> "none",
                result |-> "ok", pre |-> NoClaims,
                res |-> << >>, preGroup |-> << >>]

\* l.225-228: setResources(resources)
SetResources(resources) ==
    /\ m_joint_names' = setResources(m_joint_names, resources)
    /\ rlast' = [op |-> "setResources", by |-> "none", arg |-> "none",
                 result |-> "ok", pre |-> claims,
                 res |-> resources, preGroup |-> m_joint_names]
    /\ UNCHANGED <<claims, scope>>
    /\ UNCHANGED hvars
    /\ UNCHANGED xvars

\* l.238-246: consumer c calls claim(resource)
Claim(c, resource) ==
    LET r == claim(claims, c, resource, m_joint_names)
    IN  /\ claims' = r.claims
        /\ scope' = IF r.result = "ok"
                    THEN [scope EXCEPT ![c] = @ \cup Range(m_joint_names)]
                    ELSE scope
        /\ rlast' = [op |-> "claim", by |-> c, arg |-> resource,
                     result |-> r.result, pre |-> claims,
                     res |-> << >>, preGroup |-> m_joint_names]
        /\ UNCHANGED m_joint_names
        /\ UNCHANGED hvars
        /\ UNCHANGED xvars

\* the claim scope of consumer c ends
Release(c) ==
    /\ claims' = release(claims, c)
    /\ scope' = [scope EXCEPT ![c] = {}]
    /\ rlast' = [op |-> "release", by |-> c, arg |-> "none",
                 result |-> "ok", pre |-> claims,
                 res |-> << >>, preGroup |-> m_joint_names]
    /\ UNCHANGED m_joint_names
    /\ UNCHANGED hvars
    /\ UNCHANGED xvars

---------------------------------------------------------------------------
(* Handle: TrajectoryHandle over externally owned buffers *)

Points == {0, 1}
\* TrajectoryType values: a trajectory is its sequence of points
Trajectories == SeqsUpTo(Points, MaxTrajLen)
\* FeedbackType values
Feedbacks == 0..MaxFeedback

NULL == "nullptr"
\* pointer arguments of the constructors
CmdPtrs == {NULL, "cmd_buffer"}
FeedbackPtrs == {NULL, "feedback_buffer"}

\* what the constructors throw (HardwareInterfaceException, l.77 and l.108)
InvalidArgument == "HardwareInterfaceException"

\* no object: before construction, after a throwing constructor, after ~TrajectoryHandle
NoHandle == [alive |-> FALSE, m_cmd |-> NULL, m_feedback |-> NULL,
             m_cmd_callback |-> FALSE, m_cancel_callback |-> FALSE]

\* Mutant: the constructor rejects only the case of both buffers missing.
TrajectoryHandle4_and(cmd, feedback, on_new_cmd, on_cancel) ==
    IF cmd = NULL /\ feedback = NULL
    THEN [handle |-> NoHandle, result |-> InvalidArgument]
    ELSE [handle |-> [alive |-> TRUE, m_cmd |-> cmd, m_feedback |-> feedback,
                      m_cmd_callback |-> on_new_cmd,
                      m_cancel_callback |-> on_cancel],
          result |-> "ok"]

\* l.97-111: TrajectoryHandle(cmd, feedback, on_new_cmd, on_cancel).  A callback
\* argument is TRUE for a callable std::function and FALSE for an empty one.
TrajectoryHandle4(cmd, feedback, on_new_cmd, on_cancel) ==
    IF cmd = NULL \/ feedback = NULL
    THEN [handle |-> NoHandle, result |-> InvalidArgument]
    ELSE [handle |-> [alive |-> TRUE, m_cmd |-> cmd, m_feedback |-> feedback,
                      m_cmd_callback |-> on_new_cmd,
                      m_cancel_callback |-> on_cancel],
          result |-> "ok"]

\* l.71-80: TrajectoryHandle(cmd, feedback); both std::function members are
\* default-constructed, that is empty.
TrajectoryHandle2(cmd, feedback) ==
    IF cmd = NULL \/ feedback = NULL
    THEN [handle |-> NoHandle, result |-> InvalidArgument]
    ELSE [handle |-> [alive |-> TRUE, m_cmd |-> cmd, m_feedback |-> feedback,
                      m_cmd_callback |-> FALSE, m_cancel_callback |-> FALSE],
          result |-> "ok"]

\* Mutant: the new trajectory is merged into the buffer instead of replacing it.
setCommand_merge(h, buf, command) ==
    LET written == buf \o command
    IN  [cmd |-> written,
         calls |-> IF h.m_cmd_callback THEN <<written>> ELSE << >>]

\* Mutant: the callback is invoked before the assignment of l.126 and so is
\* handed the previous content of *m_cmd.
setCommand_callback_first(h, buf, command) ==
    [cmd |-> command,
     calls |-> IF h.m_cmd_callback THEN <<buf>> ELSE << >>]

\* l.123-132: setCommand(command).  cmd is the content of *m_cmd afterwards,
\* calls the arguments of the m_cmd_callback invocations, in order; the callback
\* is handed *m_cmd as it is after the assignment of l.126.
setCommand(h, buf, command) ==
    LET written == command
    IN  [cmd |-> written,
         calls |-> IF h.m_cmd_callback THEN <<written>> ELSE << >>]

\* l.142: getCommand() returns a copy of *m_cmd
getCommand(h, buf) == buf

\* Mutant: the cancel callback is invoked without the check of l.149.
cancelCommand_unguarded(h) ==
    IF h.m_cancel_callback
    THEN [calls |-> 1, result |-> "ok"]
    ELSE [calls |-> 0, result |-> "bad_function_call"]

\* l.147-153: cancelCommand(); calls is the number of m_cancel_callback
\* invocations made by the call.
cancelCommand(h) ==
    IF h.m_cancel_callback
    THEN [calls |-> 1, result |-> "ok"]
    ELSE [calls |-> 0, result |-> "ok"]

\* Mutant: feedback is only ever raised, an older larger value is kept.
setFeedback_max(h, buf, feedback) == IF feedback > buf THEN feedback ELSE buf

\* l.163-167: setFeedback(feedback); the content of *m_feedback afterwards
setFeedback(h, buf, feedback) == feedback

\* l.177: getFeedback() returns a copy of *m_feedback
getFeedback(h, buf) == buf

\* record of a handle operation: its name, its arguments (traj, fb, ptrs, cbs),
\* its return value (traj or fb for the getters), how it ended, and, from
\* before it, the buffer contents and the numbers of invocations of the
\* on-new-command and of the cancel callback
HLast(op, traj, fb, ptrs, cbs, result) ==
    [op |-> op, traj |-> traj, fb |-> fb, ptrs |-> ptrs, cbs |-> cbs,
     result |-> result, preCmd |-> cmdBuf, preFb |-> fbBuf,
     preCalls |-> <<Len(cmdCbLog), nCancelCb>>]

HInit ==
    /\ handle = NoHandle
    /\ cmdBuf = << >>
    /\ fbBuf = 0
    /\ setLog = << >>
    /\ cmdCbLog = << >>
    /\ nCancel = 0
    /\ nCancelCb = 0
    /\ hlast = [op |-> "init", traj |-> << >>, fb |-> 0,
                ptrs |-> <<NULL, NULL>>, cbs |-> <<FALSE, FALSE>>,
                result |-> "ok", preCmd |-> << >>, preFb |-> 0,
                preCalls |-> <<0, 0>>]

ResetLogs ==
    /\ setLog' = << >>
    /\ cmdCbLog' = << >>
    /\ nCancel' = 0
    /\ nCancelCb' = 0

\* l.71-80
Construct2(cmd, feedback) ==
    /\ ~handle.alive
    /\ LET r == TrajectoryHandle2(cmd, feedback)
       IN  /\ handle' = r.handle
           /\ hlast' = HLast("construct2", << >>, 0, <<cmd, feedback>>,
                             <<FALSE, FALSE>>, r.result)
    /\ ResetLogs
    /\ UNCHANGED <<cmdBuf, fbBuf>>
    /\ UNCHANGED rvars
    /\ UNCHANGED xvars

\* l.97-111
Construct4(cmd, feedback, on_new_cmd, on_cancel) ==
    /\ ~handle.alive
    /\ LET r == TrajectoryHandle4(cmd, feedback, on_new_cmd, on_cancel)
       IN  /\ handle' = r.handle
           /\ hlast' = HLast("construct4", << >>, 0, <<cmd, feedback>>,
                             <<on_new_cmd, on_cancel>>, r.result)
    /\ ResetLogs
    /\ UNCHANGED <<cmdBuf, fbBuf>>
    /\ UNCHANGED rvars
    /\ UNCHANGED xvars

\* l.113: ~TrajectoryHandle(); the buffers are not the handle's and stay
Destroy ==
    /\ handle.alive
    /\ handle' = NoHandle
    /\ hlast' = HLast("destroy", << >>, 0, <<NULL, NULL>>, <<FALSE, FALSE>>, "ok")
    /\ ResetLogs
    /\ UNCHANGED <<cmdBuf, fbBuf>>
    /\ UNCHANGED rvars
    /\ UNCHANGED xvars

\* l.123-132
SetCommand(command) ==
    /\ handle.alive
    /\ Len(setLog) < MaxOps
    /\ LET r == setCommand(handle, cmdBuf, command)
       IN  /\ cmdBuf' = r.cmd
           /\ cmdCbLog' = cmdCbLog \o r.calls
    /\ setLog' = Append(setLog, command)
    /\ hlast' = HLast("setCommand", command, 0, <<NULL, NULL>>, <<FALSE, FALSE>>, "ok")
    /\ UNCHANGED <<handle, fbBuf, nCancel, nCancelCb>>
    /\ UNCHANGED rvars
    /\ UNCHANGED xvars

\* Mutant: the read moves the trajectory out of the buffer and leaves it empty.
GetCommand_moving ==
    /\ handle.alive
    /\ hlast' = HLast("getCommand", getCommand(handle, cmdBuf), 0,
                      <<NULL, NULL>>, <<FALSE, FALSE>>, "ok")
    /\ cmdBuf' = << >>
    /\ UNCHANGED <<handle, fbBuf, setLog, cmdCbLog, nCancel, nCancelCb>>
    /\ UNCHANGED rvars
    /\ UNCHANGED xvars

\* l.142
GetCommand ==
    /\ handle.alive
    /\ hlast' = HLast("getCommand", getCommand(handle, cmdBuf), 0,
                      <<NULL, NULL>>, <<FALSE, FALSE>>, "ok")
    /\ UNCHANGED <<handle, cmdBuf, fbBuf, setLog, cmdCbLog, nCancel, nCancelCb>>
    /\ UNCHANGED rvars
    /\ UNCHANGED xvars

\* Mutant: cancelCommand itself empties the command buffer.
CancelCommand_zeroing ==
    /\ handle.alive
    /\ nCancel < MaxOps
    /\ LET r == cancelCommand(handle)
       IN  /\ nCancelCb' = nCancelCb + r.calls
           /\ hlast' = HLast("cancelCommand", << >>, 0, <<NULL, NULL>>,
                             <<FALSE, FALSE>>, r.result)
    /\ nCancel' = nCancel + 1
    /\ cmdBuf' = << >>
    /\ UNCHANGED <<handle, fbBuf, setLog, cmdCbLog>>
    /\ UNCHANGED rvars
    /\ UNCHANGED xvars

\* l.147-153
CancelCommand ==
    /\ handle.alive
    /\ nCancel < MaxOps
    /\ LET r == cancelCommand(handle)
       IN  /\ nCancelCb' = nCancelCb + r.calls
           /\ hlast' = HLast("cancelCommand", << >>, 0, <<NULL, NULL>>,
                             <<FALSE, FALSE>>, r.result)
    /\ nCancel' = nCancel + 1
    /\ UNCHANGED <<handle, cmdBuf, fbBuf, setLog, cmdCbLog>>
    /\ UNCHANGED rvars
    /\ UNCHANGED xvars

\* Mutant: setFeedback notifies the on-new-command callback like setCommand.
SetFeedback_notifying(feedback) ==
    /\ handle.alive
    /\ fbBuf' = setFeedback(handle, fbBuf, feedback)
    /\ hlast' = HLast("setFeedback", << >>, feedback, <<NULL, NULL>>,
                      <<FALSE, FALSE>>, "ok")
    /\ cmdCbLog' = IF handle.m_cmd_callback THEN Append(cmdCbLog, cmdBuf) ELSE cmdCbLog
    /\ UNCHANGED <<handle, cmdBuf, setLog, nCancel, nCancelCb>>
    /\ UNCHANGED rvars
    /\ UNCHANGED xvars

\* l.163-167
SetFeedback(feedback) ==
    /\ handle.alive
    /\ fbBuf' = setFeedback(handle, fbBuf, feedback)
    /\ hlast' = HLast("setFeedback", << >>, feedback, <<NULL, NULL>>,
                      <<FALSE, FALSE>>, "ok")
    /\ UNCHANGED <<handle, cmdBuf, setLog, cmdCbLog, nCancel, nCancelCb>>
    /\ UNCHANGED rvars
    /\ UNCHANGED xvars

\* l.177
GetFeedback ==
    /\ handle.alive
    /\ hlast' = HLast("getFeedback", << >>, getFeedback(handle, fbBuf),
                      <<NULL, NULL>>, <<FALSE, FALSE>>, "ok")
    /\ UNCHANGED <<handle, cmdBuf, fbBuf, setLog, cmdCbLog, nCancel, nCancelCb>>
    /\ UNCHANGED rvars
    /\ UNCHANGED xvars

---------------------------------------------------------------------------
(* Driver and controller: one registered handle, handed out by getHandle *)

\* the two aliases of the handle template (l.194-195)
Kinds == {"joint", "cartesian"}

\* l.184: getName() returns the same literal for every handle
getName(h) == "joint_trajectory_handle"

\* values of the argument of getHandle(): the registered handle's name, a
\* member name of the group and a name nothing was registered under
LookupNames == {"joint_trajectory_handle", "A", "unregistered"}

NoneRegistered == [n \in LookupNames |-> NoHandle]
NoCopies == [c \in Consumers |-> NoHandle]
NoNames == [k \in Kinds |-> ""]

\* inputs of the driver/controller scenario
ScenarioGroups == {<<"A", "B">>}
ScenarioTrajectories == {<<1>>, <<0, 1>>}
ScenarioFeedbacks == {0, 1}

\* addresses of the driver's buffers, whose contents are cmdBuf and fbBuf
CmdAddr == "cmd_buffer"
FbAddr == "feedback_buffer"

\* content read through a pointer: the driver's buffer, or for any other
\* storage its value-initialised content
LoadCmd(ptr) == IF ptr = CmdAddr THEN cmdBuf ELSE << >>
LoadFb(ptr) == IF ptr = FbAddr THEN fbBuf ELSE 0

\* Mutant: a copy takes its own buffers instead of sharing the original's.
copyHandle_detached(h) ==
    [h EXCEPT !.m_cmd = "cmd_copy", !.m_feedback = "feedback_copy"]

\* l.186-190: the implicit copy constructor copies the two raw pointers and
\* the two std::function members
copyHandle(h) == h

\* Base registry: registerHandle files the handle under its getName().
registerHandle(reg, h) == [reg EXCEPT ![getName(h)] = h]

\* Mutant: the claim is taken before the lookup.
getHandle_claim_first(reg, tbl, c, name, joints) ==
    LET r == claim(tbl, c, name, joints)
    IN  IF ~reg[name].alive
        THEN [claims |-> r.claims, result |-> "NotFound", handle |-> NoHandle]
        ELSE [claims |-> r.claims, result |-> r.result,
              handle |-> IF r.result = "ok" THEN copyHandle(reg[name]) ELSE NoHandle]

\* Base registry: getHandle(name) looks the name up, fails with NotFound when
\* nothing is registered under it, otherwise claims through the interface's
\* claim() and returns a copy of the registered handle.
getHandle(reg, tbl, c, name, joints) ==
    IF ~reg[name].alive
    THEN [claims |-> tbl, result |-> "NotFound", handle |-> NoHandle]
    ELSE LET r == claim(tbl, c, name, joints)
         IN  [claims |-> r.claims, result |-> r.result,
              handle |-> IF r.result = "ok" THEN copyHandle(reg[name]) ELSE NoHandle]

XInit ==
    /\ registered = NoneRegistered
    /\ ctrl = NoCopies
    /\ kind = "joint"
    /\ names = NoNames
    /\ loopOp = [op |-> "idle", traj |-> << >>, fb |-> 0]   \* Idle
    /\ cancelling = FALSE

\* the driver builds its handle over its two buffers (l.97-111) as alias k and
\* registers it
DriverRegister(k, on_new_cmd, on_cancel) ==
    /\ ~handle.alive
    /\ LET r == TrajectoryHandle4(CmdAddr, FbAddr, on_new_cmd, on_cancel)
       IN  /\ r.result = "ok"
           /\ handle' = r.handle
           /\ registered' = registerHandle(registered, r.handle)
           /\ hlast' = HLast("construct4", << >>, 0, <<CmdAddr, FbAddr>>,
                             <<on_new_cmd, on_cancel>>, r.result)
    /\ kind' = k
    /\ ResetLogs
    /\ UNCHANGED <<cmdBuf, fbBuf, ctrl, names, loopOp, cancelling>>
    /\ UNCHANGED rvars

\* l.184: getName() on the driver's handle
GetName ==
    /\ handle.alive
    /\ names' = [names EXCEPT ![kind] = getName(handle)]
    /\ hlast' = HLast("getName", << >>, 0, <<NULL, NULL>>, <<FALSE, FALSE>>, "ok")
    /\ UNCHANGED <<handle, cmdBuf, fbBuf, setLog, cmdCbLog, nCancel, nCancelCb>>
    /\ UNCHANGED <<registered, ctrl, kind, loopOp, cancelling>>
    /\ UNCHANGED rvars

\* consumer c calls getHandle(name) on the interface
GetHandle(c, name) ==
    /\ LET r == getHandle(registered, claims, c, name, m_joint_names)
       IN  /\ claims' = r.claims
           /\ scope' = IF r.result = "ok"
                       THEN [scope EXCEPT ![c] = @ \cup Range(m_joint_names)]
                       ELSE scope
           /\ ctrl' = IF r.result = "ok" THEN [ctrl EXCEPT ![c] = r.handle] ELSE ctrl
           /\ rlast' = [op |-> "getHandle", by |-> c, arg |-> name,
                        result |-> r.result, pre |-> claims,
                        res |-> << >>, preGroup |-> m_joint_names]
    /\ UNCHANGED <<m_joint_names, registered, kind, names, loopOp, cancelling>>
    /\ UNCHANGED hvars

\* l.123-132 through the copy consumer c holds; the write goes to the storage
\* the copy's m_cmd points to
CtrlSetCommand(c, command) ==
    /\ ctrl[c].alive
    /\ Len(setLog) < MaxOps
    /\ LET r == setCommand(ctrl[c], LoadCmd(ctrl[c].m_cmd), command)
       IN  /\ cmdBuf' = IF ctrl[c].m_cmd = CmdAddr THEN r.cmd ELSE cmdBuf
           /\ cmdCbLog' = cmdCbLog \o r.calls
    /\ setLog' = Append(setLog, command)
    /\ hlast' = HLast("ctrl.setCommand", command, 0, <<NULL, NULL>>,
                      <<FALSE, FALSE>>, "ok")
    /\ UNCHANGED <<handle, fbBuf, nCancel, nCancelCb>>
    /\ UNCHANGED rvars
    /\ UNCHANGED xvars

\* l.177 through the copy consumer c holds
CtrlGetFeedback(c) ==
    /\ ctrl[c].alive
    /\ hlast' = HLast("ctrl.getFeedback", << >>,
                      getFeedback(ctrl[c], LoadFb(ctrl[c].m_feedback)),
                      <<NULL, NULL>>, <<FALSE, FALSE>>, "ok")
    /\ UNCHANGED <<handle, cmdBuf, fbBuf, setLog, cmdCbLog, nCancel, nCancelCb>>
    /\ UNCHANGED rvars
    /\ UNCHANGED xvars

\* l.147-153 through the copy consumer c holds
CtrlCancelCommand(c) ==
    /\ ctrl[c].alive
    /\ nCancel < MaxOps
    /\ LET r == cancelCommand(ctrl[c])
       IN  /\ nCancelCb' = nCancelCb + r.calls
           /\ hlast' = HLast("ctrl.cancelCommand", << >>, 0, <<NULL, NULL>>,
                             <<FALSE, FALSE>>, r.result)
    /\ nCancel' = nCancel + 1
    /\ UNCHANGED <<handle, cmdBuf, fbBuf, setLog, cmdCbLog>>
    /\ UNCHANGED rvars
    /\ UNCHANGED xvars

---------------------------------------------------------------------------
(* A cancelCommand delivered from another thread than the control loop's *)

Idle == [op |-> "idle", traj |-> << >>, fb |-> 0]

\* the control loop enters setCommand(command) and assigns the buffer (l.125-126)
LoopSetCommandWrite(command) ==
    /\ handle.alive
    /\ loopOp.op = "idle"
    /\ Len(setLog) < MaxOps
    /\ cmdBuf' = setCommand(handle, cmdBuf, command).cmd
    /\ setLog' = Append(setLog, command)
    /\ loopOp' = [op |-> "setCommand", traj |-> command, fb |-> 0]
    /\ hlast' = HLast("setCommand.write", command, 0, <<NULL, NULL>>,
                      <<FALSE, FALSE>>, "ok")
    /\ UNCHANGED <<handle, fbBuf, cmdCbLog, nCancel, nCancelCb>>
    /\ UNCHANGED <<registered, ctrl, kind, names, cancelling>>
    /\ UNCHANGED rvars

\* the control loop runs the rest of setCommand: the callback on the buffer
\* (l.128-131), and returns
LoopSetCommandNotify ==
    /\ loopOp.op = "setCommand"
    /\ cmdCbLog' = cmdCbLog \o (IF handle.m_cmd_callback THEN <<cmdBuf>> ELSE << >>)
    /\ loopOp' = Idle
    /\ hlast' = HLast("setCommand", loopOp.traj, 0, <<NULL, NULL>>,
                      <<FALSE, FALSE>>, "ok")
    /\ UNCHANGED <<handle, cmdBuf, fbBuf, setLog, nCancel, nCancelCb>>
    /\ UNCHANGED <<registered, ctrl, kind, names, cancelling>>
    /\ UNCHANGED rvars

\* the control loop enters getCommand, setFeedback(feedback) or getFeedback
LoopEnter(op, feedback) ==
    /\ handle.alive
    /\ loopOp.op = "idle"
    /\ loopOp' = [op |-> op, traj |-> << >>, fb |-> feedback]
    /\ UNCHANGED hvars
    /\ UNCHANGED <<registered, ctrl, kind, names, cancelling>>
    /\ UNCHANGED rvars

\* the control loop completes the operation it entered (l.142, l.163-167, l.177)
LoopComplete ==
    /\ loopOp.op \in {"getCommand", "setFeedback", "getFeedback"}
    /\ fbBuf' = IF loopOp.op = "setFeedback"
                THEN setFeedback(handle, fbBuf, loopOp.fb)
                ELSE fbBuf
    /\ hlast' = HLast(loopOp.op,
                      IF loopOp.op = "getCommand" THEN getCommand(handle, cmdBuf) ELSE << >>,
                      IF loopOp.op = "getFeedback" THEN getFeedback(handle, fbBuf) ELSE loopOp.fb,
                      <<NULL, NULL>>, <<FALSE, FALSE>>, "ok")
    /\ loopOp' = Idle
    /\ UNCHANGED <<handle, cmdBuf, setLog, cmdCbLog, nCancel, nCancelCb>>
    /\ UNCHANGED <<registered, ctrl, kind, names, cancelling>>
    /\ UNCHANGED rvars

\* another thread enters cancelCommand (l.147-149)
CancelEnter ==
    /\ handle.alive
    /\ ~cancelling
    /\ nCancel < MaxOps
    /\ cancelling' = TRUE
    /\ UNCHANGED hvars
    /\ UNCHANGED <<registered, ctrl, kind, names, loopOp>>
    /\ UNCHANGED rvars

\* Mutant: the cancelling thread empties the command buffer before it returns.
CancelComplete_zeroing ==
    /\ cancelling
    /\ LET r == cancelCommand(handle)
       IN  /\ nCancelCb' = nCancelCb + r.calls
           /\ hlast' = HLast("cancelCommand", << >>, 0, <<NULL, NULL>>,
                             <<FALSE, FALSE>>, r.result)
    /\ nCancel' = nCancel + 1
    /\ cancelling' = FALSE
    /\ cmdBuf' = << >>
    /\ UNCHANGED <<handle, fbBuf, setLog, cmdCbLog>>
    /\ UNCHANGED <<registered, ctrl, kind, names, loopOp>>
    /\ UNCHANGED rvars

\* that thread runs the callback, if any, and returns (l.149-153)
CancelComplete ==
    /\ cancelling
    /\ LET r == cancelCommand(handle)
       IN  /\ nCancelCb' = nCancelCb + r.calls
           /\ hlast' = HLast("cancelCommand", << >>, 0, <<NULL, NULL>>,
                             <<FALSE, FALSE>>, r.result)
    /\ nCancel' = nCancel + 1
    /\ cancelling' = FALSE
    /\ UNCHANGED <<handle, cmdBuf, fbBuf, setLog, cmdCbLog>>
    /\ UNCHANGED <<registered, ctrl, kind, names, loopOp>>
    /\ UNCHANGED rvars

---------------------------------------------------------------------------
(* Specifications *)

Init == RInit /\ HInit /\ XInit

SetResourcesStep == \E resources \in Groups : SetResources(resources)
ClaimStep == \E c \in Consumers, resource \in ClaimArgs : Claim(c, resource)
ReleaseStep == \E c \in Consumers : Release(c)

RNext ==
    \/ SetResourcesStep
    \/ ClaimStep
    \/ ReleaseStep

Construct2Step == \E cmd \in CmdPtrs, feedback \in FeedbackPtrs : Construct2(cmd, feedback)
Construct4Step ==
    \E cmd \in CmdPtrs, feedback \in FeedbackPtrs, on_new_cmd \in BOOLEAN, on_cancel \in BOOLEAN :
        Construct4(cmd, feedback, on_new_cmd, on_cancel)
SetCommandStep == \E command \in Trajectories : SetCommand(command)
SetFeedbackStep == \E feedback \in Feedbacks : SetFeedback(feedback)

HNext ==
    \/ Construct2Step
    \/ Construct4Step
    \/ Destroy
    \/ SetCommandStep
    \/ GetCommand
    \/ CancelCommand
    \/ SetFeedbackStep
    \/ GetFeedback

DriverRegisterStep ==
    \E k \in Kinds, on_new_cmd \in BOOLEAN, on_cancel \in BOOLEAN :
        DriverRegister(k, on_new_cmd, on_cancel)
ScenarioSetResources == \E resources \in ScenarioGroups : SetResources(resources)
GetHandleStep == \E c \in Consumers, name \in LookupNames : GetHandle(c, name)
CtrlSetCommandStep ==
    \E c \in Consumers, command \in ScenarioTrajectories : CtrlSetCommand(c, command)
CtrlGetFeedbackStep == \E c \in Consumers : CtrlGetFeedback(c)
CtrlCancelCommandStep == \E c \in Consumers : CtrlCancelCommand(c)
DriverSetFeedback == \E feedback \in ScenarioFeedbacks : SetFeedback(feedback)

ScenarioRegister ==
    \E on_new_cmd \in BOOLEAN, on_cancel \in BOOLEAN :
        DriverRegister("joint", on_new_cmd, on_cancel)

PNext ==
    \/ ScenarioRegister
    \/ ScenarioSetResources
    \/ GetHandleStep
    \/ CtrlSetCommandStep
    \/ GetCommand
    \/ DriverSetFeedback
    \/ CtrlGetFeedbackStep
    \/ CtrlCancelCommandStep

LoopSetCommandWriteStep ==
    \E command \in ScenarioTrajectories : LoopSetCommandWrite(command)
LoopEnterStep ==
    \E op \in {"getCommand", "setFeedback", "getFeedback"} :
        \E feedback \in (IF op = "setFeedback" THEN ScenarioFeedbacks ELSE {0}) :
            LoopEnter(op, feedback)

ANext ==
    \/ Construct4Step
    \/ LoopSetCommandWriteStep
    \/ LoopSetCommandNotify
    \/ LoopEnterStep
    \/ LoopComplete
    \/ CancelEnter
    \/ CancelComplete

NNext ==
    \/ DriverRegisterStep
    \/ Destroy
    \/ GetName
    \/ GetCommand
    \/ DriverSetFeedback

\* the registry under any interleaving of setResources, claim and release
SpecRegistry == Init /\ [][RNext]_vars

\* one handle under any sequence of its operations
SpecHandle == Init /\ [][HNext]_vars

\* a driver that registers its handle and controllers that obtain it through
\* getHandle and use it
SpecPassThrough == Init /\ [][PNext]_vars

\* one handle used by the control loop while cancelCommand arrives from
\* another thread, at any point of the loop's operations
SpecAsync == Init /\ [][ANext]_vars

\* a driver that builds, names and destroys handles of either alias; the
\* registry keeps its own copy of a registered handle
SpecNames == Init /\ [][NNext]_vars

---------------------------------------------------------------------------
(* Properties of the registry, checked under SpecRegistry *)

\* some member of the configured group is held by a consumer other than c in tbl
ForeignMember(tbl, c) ==
    \E n \in Range(m_joint_names) : \E d \in Consumers \ {c} : n \in tbl[d]

\* C1: a claim on a group of which a member is held by another consumer fails
\* with ResourceConflict and leaves the claim table as it was before the call.
C1_ConflictLeavesTableUnchanged ==
    (rlast.op = "claim" /\ ForeignMember(rlast.pre, rlast.by))
        => (rlast.result = "ResourceConflict" /\ claims = rlast.pre)

\* C2: every resource name is claimed by at most one consumer.
C2_MutualExclusion ==
    \A n \in Names : Cardinality({c \in Consumers : n \in claims[c]}) <= 1

C2_Witness ==
    /\ rlast.op = "claim"
    /\ rlast.result = "ResourceConflict"
    /\ \E n \in Range(m_joint_names) :
          Cardinality({c \in Consumers : n \in claims[c]}) = 1

\* C3: between operations a consumer holds all the names of the groups it has
\* claimed or none of them, never a part.
C3_AllOrNothing ==
    \A c \in Consumers : claims[c] = {} \/ claims[c] = scope[c]

\* C4: with no member of the configured group held by another consumer,
\* claim(name) succeeds and adds exactly the configured group to the caller's
\* claims, whatever the value of name.
C4_ClaimsWholeGroup ==
    (rlast.op = "claim" /\ ~ForeignMember(rlast.pre, rlast.by))
        => /\ rlast.result = "ok"
           /\ claims = [rlast.pre EXCEPT ![rlast.by] = @ \cup Range(m_joint_names)]

C4_Witness ==
    /\ rlast.op = "claim"
    /\ rlast.arg = "unregistered"
    /\ rlast.result = "ok"
    /\ Cardinality(Range(m_joint_names)) = 2
    /\ rlast.pre[rlast.by] = {}
    /\ claims[rlast.by] = Range(m_joint_names)
    /\ \E d \in Consumers \ {rlast.by} : claims[d] # {}

\* C5: a release drops all the names the consumer held together: afterwards
\* none of them is claimed and any other consumer's claim of a group made of
\* them succeeds and holds the group.
C5_ReleaseFreesGroup ==
    rlast.op = "release"
        => /\ \A n \in rlast.pre[rlast.by] : \A d \in Consumers : n \notin claims[d]
           /\ \A d \in Consumers \ {rlast.by} : \A g \in Groups : \A a \in ClaimArgs :
                 Range(g) \subseteq rlast.pre[rlast.by]
                     => LET r == claim(claims, d, a, g)
                        IN  r.result = "ok" /\ Range(g) \subseteq r.claims[d]

C5_Witness ==
    /\ rlast.op = "release"
    /\ Cardinality(rlast.pre[rlast.by]) = 2
    /\ rlast.pre[rlast.by] = Range(m_joint_names)
    /\ claims[rlast.by] = {}
    /\ \E d \in Consumers \ {rlast.by} : claims[d] # {}

\* C13: setResources replaces the group: after setResources(Y) on an interface
\* configured with X, a claim that succeeds adds exactly the names of Y to the
\* caller's claims, and no name that is in X but not in Y.
C13_SetResourcesReplaces ==
    rlast.op = "setResources"
        => /\ m_joint_names = rlast.res
           /\ \A c \in Consumers : \A a \in ClaimArgs :
                 LET r == claim(claims, c, a, m_joint_names)
                 IN  r.result = "ok"
                         => /\ r.claims[c] = claims[c] \cup Range(rlast.res)
                            /\ \A n \in Range(rlast.preGroup) \ Range(rlast.res) :
                                  n \in r.claims[c] => n \in claims[c]

C13_Witness ==
    /\ rlast.op = "setResources"
    /\ rlast.preGroup = <<"A", "B">>
    /\ rlast.res = <<"B", "C">>
    /\ claims = NoClaims
    /\ claim(claims, "c1", "A", m_joint_names).claims["c1"] = {"B", "C"}

\* C19: a claim on an interface whose configured names are empty (setResources
\* never called, or last called with an empty sequence) claims nothing, not
\* even the name given as its argument, and reports no failure.
C19_EmptyGroupClaimsNothing ==
    (rlast.op = "claim" /\ m_joint_names = << >>)
        => rlast.result = "ok" /\ claims = rlast.pre

C19_Witness ==
    /\ rlast.op = "claim"
    /\ m_joint_names = << >>
    /\ rlast.arg = "A"
    /\ rlast.result = "ok"
    /\ claims = NoClaims

---------------------------------------------------------------------------
(* Properties of the handle, checked under SpecHandle *)

\* C6: after setCommand(v), getCommand() returns v, whatever the buffer held.
C6_CommandRoundTrip ==
    hlast.op = "setCommand" => getCommand(handle, cmdBuf) = hlast.traj

C6_Witness ==
    /\ hlast.op = "setCommand"
    /\ Len(hlast.preCmd) = 1
    /\ Len(hlast.traj) = 1
    /\ hlast.traj[1] # hlast.preCmd[1]
    /\ cmdBuf = hlast.traj

\* C7: with a registered on-new-command callback the callback has been invoked
\* once per setCommand call, with that call's argument; without one it has not
\* been invoked and setCommand has written the buffer all the same.
C7_CommandCallbackPerSet ==
    handle.alive
        => /\ handle.m_cmd_callback => cmdCbLog = setLog
           /\ ~handle.m_cmd_callback => cmdCbLog = << >>
           /\ (hlast.op = "setCommand" /\ ~handle.m_cmd_callback)
                 => cmdBuf = hlast.traj

C7_Witness ==
    /\ handle.alive
    /\ handle.m_cmd_callback
    /\ hlast.op = "setCommand"
    /\ Len(setLog) = 2
    /\ setLog[1] # setLog[2]
    /\ cmdCbLog = setLog

\* C8: with a registered cancel callback the callback has been invoked once per
\* cancelCommand call; without one it has not been invoked; cancelCommand
\* completes without error either way.
C8_CancelCallbackPerCancel ==
    handle.alive
        => /\ handle.m_cancel_callback => nCancelCb = nCancel
           /\ ~handle.m_cancel_callback => nCancelCb = 0
           /\ hlast.op = "cancelCommand" => hlast.result = "ok"

C8_Witness ==
    /\ handle.alive
    /\ handle.m_cancel_callback
    /\ hlast.op = "cancelCommand"
    /\ nCancel = 2
    /\ nCancelCb = 2

\* C9: either constructor fails with InvalidArgument and leaves no handle when
\* the command buffer, the feedback buffer or both are absent, and yields a
\* handle bound to both buffers when both are present.
C9_ConstructionNeedsBothBuffers ==
    hlast.op \in {"construct2", "construct4"}
        => IF hlast.ptrs[1] = NULL \/ hlast.ptrs[2] = NULL
           THEN hlast.result = InvalidArgument /\ ~handle.alive
           ELSE /\ hlast.result = "ok"
                /\ handle.alive
                /\ handle.m_cmd = hlast.ptrs[1]
                /\ handle.m_feedback = hlast.ptrs[2]

C9_Witness ==
    /\ hlast.op = "construct4"
    /\ hlast.ptrs[1] # NULL
    /\ hlast.ptrs[2] = NULL
    /\ hlast.cbs = <<TRUE, TRUE>>
    /\ hlast.result = InvalidArgument
    /\ ~handle.alive

\* C10: after setFeedback(f), getFeedback() returns f, whatever the buffer held.
C10_FeedbackRoundTrip ==
    hlast.op = "setFeedback" => getFeedback(handle, fbBuf) = hlast.fb

C10_Witness ==
    /\ hlast.op = "setFeedback"
    /\ hlast.fb < hlast.preFb
    /\ fbBuf = hlast.fb

\* C11: cancelCommand leaves the command buffer and the feedback buffer as
\* they were, with and without a registered cancel callback.
C11_CancelLeavesBuffers ==
    hlast.op = "cancelCommand"
        => cmdBuf = hlast.preCmd /\ fbBuf = hlast.preFb

C11_Witness ==
    /\ hlast.op = "cancelCommand"
    /\ handle.m_cancel_callback
    /\ nCancelCb = hlast.preCalls[2] + 1
    /\ cmdBuf # << >>
    /\ fbBuf # 0
    /\ cmdBuf = hlast.preCmd
    /\ fbBuf = hlast.preFb

\* C12: getCommand and getFeedback leave both buffers as they were and invoke
\* no callback, and the next read returns the value this one returned.
C12_ReadsDoNotMutate ==
    /\ hlast.op \in {"getCommand", "getFeedback"}
          => /\ cmdBuf = hlast.preCmd
             /\ fbBuf = hlast.preFb
             /\ <<Len(cmdCbLog), nCancelCb>> = hlast.preCalls
    /\ hlast.op = "getCommand" => getCommand(handle, cmdBuf) = hlast.traj
    /\ hlast.op = "getFeedback" => getFeedback(handle, fbBuf) = hlast.fb

C12_Witness ==
    /\ hlast.op = "getCommand"
    /\ Len(hlast.traj) = 1
    /\ handle.m_cmd_callback
    /\ handle.m_cancel_callback
    /\ cmdBuf = hlast.traj
    /\ fbBuf # 0

\* C17: within setCommand(v) on a handle with a registered callback, the
\* callback runs inside the call and after the write: when the call has
\* returned there is one more invocation, and what it was handed, the content
\* of the command buffer at that moment, is v.
C17_WriteThenCallbackInCall ==
    (hlast.op = "setCommand" /\ handle.m_cmd_callback)
        => /\ Len(cmdCbLog) = hlast.preCalls[1] + 1
           /\ cmdCbLog[Len(cmdCbLog)] = hlast.traj

C17_Witness ==
    /\ hlast.op = "setCommand"
    /\ handle.m_cmd_callback
    /\ hlast.preCmd # << >>
    /\ hlast.traj # << >>
    /\ hlast.traj # hlast.preCmd
    /\ Len(cmdCbLog) = hlast.preCalls[1] + 1
    /\ cmdCbLog[Len(cmdCbLog)] = hlast.traj

\* C20: setFeedback leaves the command buffer as it was and invokes neither
\* callback; setCommand leaves the feedback buffer as it was and does not
\* invoke the cancel callback.
C20_ChannelsIndependent ==
    /\ hlast.op = "setFeedback"
          => /\ cmdBuf = hlast.preCmd
             /\ <<Len(cmdCbLog), nCancelCb>> = hlast.preCalls
    /\ hlast.op = "setCommand"
          => /\ fbBuf = hlast.preFb
             /\ nCancelCb = hlast.preCalls[2]

C20_Witness ==
    /\ hlast.op = "setFeedback"
    /\ handle.m_cmd_callback
    /\ handle.m_cancel_callback
    /\ hlast.fb # hlast.preFb
    /\ fbBuf = hlast.fb
    /\ cmdBuf # << >>
    /\ Len(cmdCbLog) = 1
    /\ nCancelCb = 1

---------------------------------------------------------------------------
(* Properties of handle names, checked under SpecNames *)

\* C14: handles of different aliases (joint, Cartesian) return different names
\* from getName().
C14_NamesDistinguishHandles ==
    \A j \in Kinds : \A k \in Kinds :
        (j # k /\ names[j] # "" /\ names[k] # "") => names[j] # names[k]

---------------------------------------------------------------------------
(* Properties of driver and controller, checked under SpecPassThrough *)

\* C15: getHandle(name) for a name nothing is registered under fails with
\* NotFound and leaves the claim table as it was.
C15_FailedLookupClaimsNothing ==
    (rlast.op = "getHandle" /\ ~registered[rlast.arg].alive)
        => rlast.result = "NotFound" /\ claims = rlast.pre

C15_Witness ==
    /\ rlast.op = "getHandle"
    /\ rlast.arg = "A"
    /\ handle.alive
    /\ m_joint_names = <<"A", "B">>
    /\ rlast.result = "NotFound"
    /\ claims = NoClaims

\* C16: a handle obtained through getHandle shares buffers and callbacks with
\* the driver's handle: after the controller's setCommand(traj) the driver's
\* getCommand() returns traj, after the driver's setFeedback(fb) the
\* controller's getFeedback() returns fb, and the controller's cancelCommand()
\* invokes the driver's cancel callback once.
C16_ControllerAndDriverShare ==
    /\ \A c \in Consumers :
          ctrl[c].alive
              => /\ ctrl[c].m_cmd = handle.m_cmd
                 /\ ctrl[c].m_feedback = handle.m_feedback
                 /\ ctrl[c].m_cmd_callback = handle.m_cmd_callback
                 /\ ctrl[c].m_cancel_callback = handle.m_cancel_callback
                 /\ hlast.op = "setFeedback"
                       => getFeedback(ctrl[c], LoadFb(ctrl[c].m_feedback)) = hlast.fb
    /\ hlast.op = "ctrl.setCommand"
          => getCommand(handle, LoadCmd(handle.m_cmd)) = hlast.traj
    /\ (hlast.op = "ctrl.cancelCommand" /\ handle.m_cancel_callback)
          => nCancelCb = hlast.preCalls[2] + 1

C16_Witness ==
    /\ m_joint_names = <<"A", "B">>
    /\ claims["c1"] = {"A", "B"}
    /\ ctrl["c1"].alive
    /\ ~ctrl["c2"].alive
    /\ handle.m_cancel_callback
    /\ cmdBuf = <<0, 1>>
    /\ setLog = <<(<<0, 1>>)>>
    /\ fbBuf = 1
    /\ hlast.op = "ctrl.cancelCommand"
    /\ nCancelCb = 1

---------------------------------------------------------------------------
(* Properties of the asynchronous cancel, checked under SpecAsync *)

\* a step of the cancelling thread: it enters cancelCommand or returns from it
CancelThreadStep == cancelling' # cancelling

\* C18: a cancelCommand running at any point of a setCommand, getCommand,
\* setFeedback or getFeedback on the same handle accesses neither buffer.
\* No step of the cancelling thread changes the command or the feedback
\* buffer or the operation the control loop is inside of, and what it does
\* (one call of the cancel callback on return, if there is one) does not
\* depend on the buffers.  So the loop's operation sees what it would see
\* alone: between the write and the callback of a setCommand the buffer
\* holds the value written, the callback receives that value, and getCommand
\* and getFeedback return the buffers' content.
C18_CancelNeverRaces ==
    /\ [][CancelThreadStep =>
            /\ cmdBuf' = cmdBuf
            /\ fbBuf' = fbBuf
            /\ loopOp' = loopOp
            /\ setLog' = setLog
            /\ cmdCbLog' = cmdCbLog
            /\ nCancelCb' = nCancelCb +
                   (IF cancelling /\ handle.m_cancel_callback THEN 1 ELSE 0)]_vars
    /\ [](loopOp.op = "setCommand" =>
            /\ setLog # << >>
            /\ cmdBuf = setLog[Len(setLog)]
            /\ cmdBuf = loopOp.traj)
    /\ []((hlast.op = "setCommand" /\ handle.m_cmd_callback) =>
            /\ Len(cmdCbLog) = Len(setLog)
            /\ cmdCbLog[Len(cmdCbLog)] = hlast.traj)
    /\ [](hlast.op = "getCommand" => hlast.traj = cmdBuf)
    /\ [](hlast.op = "getFeedback" => hlast.fb = fbBuf)
    /\ [](hlast.op = "setFeedback" => hlast.fb = fbBuf)

\* a cancelCommand has entered and returned, with its callback called, while
\* the control loop is between the write and the callback of a setCommand
C18_Witness ==
    /\ hlast.op = "cancelCommand"
    /\ ~cancelling
    /\ nCancelCb = 1
    /\ loopOp.op = "setCommand"
    /\ handle.m_cmd_callback
    /\ handle.m_cancel_callback
    /\ cmdBuf = loopOp.traj
    /\ cmdBuf # << >>
    /\ Len(cmdCbLog) < Len(setLog)

=============================================================================
